---- MODULE Spec2Model ----
(***************************************************************************)
(* Operation translation and dispatch layer of linear-mcp: the issue       *)
(* handlers (IssueHandler), the GraphQL client (LinearGraphQLClient) and   *)
(* the mutation documents they bind.  One caller invocation at a time is   *)
(* followed from its entry point, through every transport call it issues,  *)
(* to its terminal outcome.                                                *)
(***************************************************************************)
EXTENDS Integers, Sequences, FiniteSets, TLC

VARIABLES
  pc,            \* position of the invocation: "idle", an await point, "done"
  handler,       \* entry point invoked ("none" when idle)
  args,          \* the caller's argument object, as the caller holds it
  supplied,      \* the argument object as it was when the caller handed it in
  authenticated, \* does verifyAuth() find a session
  calls,         \* transport calls issued (rawRequest), in order
  awaiting,      \* is a rawRequest outstanding
  reply,         \* settled result of the last rawRequest, NoReply before
  projectResult, \* local of createProjectWithIssues: data of step 1
  clientResult,  \* how the awaited execute() settled, NoResult before
  outcome,       \* terminal outcome of the invocation
  peer           \* a second invocation on the same client, running alongside

\* the variables of the invocation itself
invocation == <<pc, handler, args, supplied, authenticated, calls, awaiting,
                reply, projectResult, clientResult, outcome>>

vars == <<invocation, peer>>

-----------------------------------------------------------------------------
(* Bounds of the model *)

MaxStrLen == 2     \* longest generated string value of estimate / priority
MaxNum    == 7     \* largest generated numeric value of estimate / priority
MaxIssues == 2     \* longest list of issue payloads
MaxIds    == 2     \* longest list of issue identifiers

-----------------------------------------------------------------------------
(* JavaScript values that reach parseInt(String(v), 10) *)

Num(n) == [t |-> "number", n |-> n, s |-> <<>>]
Str(s) == [t |-> "string", n |-> 0, s |-> s]
NaN    == [t |-> "NaN",    n |-> 0, s |-> <<>>]
Null   == [t |-> "null",   n |-> 0, s |-> <<>>]

isNaN(v) == v.t = "NaN"

DigitChar == <<"0", "1", "2", "3", "4", "5", "6", "7", "8", "9">>

DigitValue(c) == CHOOSE d \in 0..9 : DigitChar[d + 1] = c

IsDigit(c) == \E d \in 0..9 : DigitChar[d + 1] = c

IsWhiteSpace(c) == c = " "

RECURSIVE NatToString(_)
NatToString(n) ==
  IF n < 10 THEN <<DigitChar[n + 1]>>
  ELSE NatToString(n \div 10) \o <<DigitChar[(n % 10) + 1]>>

\* String(v)
StringOf(v) ==
  CASE v.t = "number" -> IF v.n < 0 THEN <<"-">> \o NatToString(-v.n)
                         ELSE NatToString(v.n)
    [] v.t = "string" -> v.s
    [] v.t = "null"   -> <<"n", "u", "l", "l">>
    [] v.t = "NaN"    -> <<"N", "a", "N">>

RECURSIVE SkipWhiteSpace(_)
SkipWhiteSpace(s) ==
  IF s # <<>> /\ IsWhiteSpace(Head(s)) THEN SkipWhiteSpace(Tail(s)) ELSE s

RECURSIVE DigitPrefix(_)
DigitPrefix(s) ==
  IF s # <<>> /\ IsDigit(Head(s)) THEN <<Head(s)>> \o DigitPrefix(Tail(s))
  ELSE <<>>

RECURSIVE DecimalValue(_)
DecimalValue(ds) ==
  IF ds = <<>> THEN 0
  ELSE DecimalValue(SubSeq(ds, 1, Len(ds) - 1)) * 10 + DigitValue(ds[Len(ds)])

\* parseInt(s, 10): leading white space is skipped, one sign is read, the
\* longest prefix of decimal digits is the value; no digit gives NaN.
parseInt(s) ==
  LET t   == SkipWhiteSpace(s)
      neg == t # <<>> /\ Head(t) = "-"
      u   == IF t # <<>> /\ Head(t) \in {"+", "-"} THEN Tail(t) ELSE t
      ds  == DigitPrefix(u)
  IN IF ds = <<>> THEN NaN
     ELSE Num(IF neg THEN -DecimalValue(ds) ELSE DecimalValue(ds))

-----------------------------------------------------------------------------
(* Objects: a JavaScript object is a function from its own keys *)

Has(o, k) == k \in DOMAIN o

With(o, k, v) == [x \in DOMAIN o \cup {k} |-> IF x = k THEN v ELSE o[x]]

Without(o, k) == [x \in DOMAIN o \ {k} |-> o[x]]

\* { ...a, ...b }: the keys of b win
Spread(a, b) == [x \in DOMAIN a \cup DOMAIN b |-> IF x \in DOMAIN b THEN b[x] ELSE a[x]]

EmptyObject == [x \in {} |-> 0]

Error(m) == [isError |-> TRUE, message |-> m]

\* an array value; Array.isArray tells it from every other value
Arr(items) == [t |-> "array", items |-> items]

\* an Array.isArray that accepts every value
isArray_anything(v) == TRUE

isArray(v) == v.t = "array"

Undefined == [t |-> "undefined", n |-> 0, s |-> <<>>]

\* o.k, undefined when o has no such key
Get(o, k) == IF Has(o, k) THEN o[k] ELSE Undefined

\* the truthiness if (v) and v || d test
Truthy(v) ==
  CASE v.t = "string"    -> v.s # <<>>
    [] v.t = "number"    -> v.n # 0
    [] v.t = "array"     -> TRUE
    [] v.t = "NaN"       -> FALSE
    [] v.t = "null"      -> FALSE
    [] v.t = "undefined" -> FALSE

\* typeof v === 'number' (NaN is of type number)
isNumber(v) == v.t \in {"number", "NaN"}

-----------------------------------------------------------------------------
(* Inputs the caller may supply *)

DefaultFirst == 50   \* args.first || 50

Chars == {"3", "7", "a", "-", " "}

RECURSIVE StringsUpTo(_)
StringsUpTo(n) ==
  IF n = 0 THEN {<<>>}
  ELSE LET S == StringsUpTo(n - 1)
       IN S \cup {Append(s, c) : s \in {x \in S : Len(x) = n - 1}, c \in Chars}

ExampleStrings ==
  {<<"a", "b", "c">>, <<"x", "y", "z">>, <<"3", ".", "7">>, <<"+", "3">>}

\* values a caller may put in estimate or priority
RawValues ==
  {Num(n) : n \in -1..MaxNum}
    \cup {Str(s) : s \in StringsUpTo(MaxStrLen) \cup ExampleStrings}
    \cup {Null}

RequiredFields == [title |-> "Title", description |-> "Desc", teamId |-> "team-1"]

OptionalField(k, V) == {EmptyObject} \cup {[x \in {k} |-> v] : v \in V}

\* values of the one field that go with every value of the other
CompanionValues == {Num(3), Num(7), Str(<<"a">>)}

\* CreateIssueInput objects handed to handleCreateIssue: every estimate with
\* a few priorities and every priority with a few estimates
CreateIssueInputs ==
  {Spread(Spread(b, ep[1]), ep[2]) :
     b \in {With(RequiredFields, "assigneeId", "user-1"),
            Without(RequiredFields, "teamId")},
     ep \in (OptionalField("estimate", RawValues)
               \X OptionalField("priority", CompanionValues))
            \cup (OptionalField("estimate", CompanionValues)
                    \X OptionalField("priority", RawValues))}

\* CreateIssueInput objects of a bulk list; each differs from the others
IssuePayloads ==
  {RequiredFields,
   [title |-> "Second", description |-> "Desc", teamId |-> "team-1",
    priority |-> Num(7)],
   [title |-> "Third", description |-> "Desc", teamId |-> "team-1",
    estimate |-> Str(<<"a", "b", "c">>), priority |-> Str(<<"3">>)],
   [title |-> "Fourth", description |-> "Desc", teamId |-> "team-1",
    projectId |-> "project-old"]}

RECURSIVE ListsUpTo(_, _)
ListsUpTo(S, n) ==
  IF n = 0 THEN {<<>>}
  ELSE LET L == ListsUpTo(S, n - 1)
       IN L \cup {Append(l, x) : l \in {y \in L : Len(y) = n - 1}, x \in S}

NotAnArray == Str(<<"a">>)

\* CreateIssuesInput objects handed to handleCreateIssues
CreateIssuesInputs ==
  {[issues |-> Arr(l)] : l \in ListsUpTo(IssuePayloads, MaxIssues)}
    \cup {[issues |-> NotAnArray], EmptyObject}

IssueIds == {"issue-1", "issue-2"}

\* UpdateIssueInput objects
UpdateInputs ==
  {[stateId |-> "state-2"],
   [title |-> "Renamed", priority |-> Num(7)],
   [priority |-> Str(<<"x", "y", "z">>), estimate |-> Str(<<"a", "b", "c">>)]}

\* BulkUpdateIssuesInput objects handed to handleBulkUpdateIssues
BulkUpdateIssuesInputs ==
  {[issueIds |-> Arr(l), update |-> u] :
     l \in ListsUpTo(IssueIds, MaxIds), u \in UpdateInputs}
    \cup {[issueIds |-> NotAnArray, update |-> [stateId |-> "state-2"]],
          [issueIds |-> Arr(<<"issue-1">>)]}

\* DeleteIssueInput and DeleteIssuesInput objects
DeleteIssueInputs == {[id |-> i] : i \in IssueIds} \cup {EmptyObject}

DeleteIssuesInputs ==
  {[ids |-> Arr(l)] : l \in ListsUpTo(IssueIds, MaxIds)}
    \cup {[ids |-> NotAnArray], EmptyObject}

ProjectInput1 == [name |-> "New Project", teamIds |-> Arr(<<"team-1">>)]

\* arguments of createProjectWithIssues(projectInput, issues)
ProjectWithIssuesInputs ==
  {[projectInput |-> ProjectInput1, issues |-> Arr(l)] :
     l \in ListsUpTo(IssuePayloads, MaxIssues)}

\* free-text queries; a text is the sequence of its characters
Queries ==
  {<<>>,
   <<"E", "N", "G", "-", "4", "2">>,
   <<"l", "o", "g", "i", "n", " ", "b", "u", "g">>,
   <<"e", "n", "g", "-", "4", "2">>,
   <<"E", "N", "G", "-", "4", "2", "x">>,
   <<"E", "N", "G", "-">>,
   <<"-", "4", "2">>,
   <<"E", "N", "G", "4", "2">>,
   <<"E", "-", "0", "0", "7">>,
   <<" ", "E", "N", "G", "-", "4", "2">>}

\* the optional nested path filter.project.id.eq, cut at every depth
ProjectFilters ==
  {EmptyObject,
   [filter |-> EmptyObject],
   [filter |-> [project |-> EmptyObject]],
   [filter |-> [project |-> [id |-> EmptyObject]]],
   [filter |-> [project |-> [id |-> [eq |-> Str(<<>>)]]]],
   [filter |-> [project |-> [id |-> [eq |-> Str(<<"project-1">>)]]]]}

\* the structured predicates of SearchIssuesInput, every combination
SearchPredicates ==
  {Spread(Spread(Spread(Spread(Spread(q, f), tm), as), st), pr) :
     q  \in OptionalField("query", {Str(s) : s \in Queries}),
     f  \in ProjectFilters,
     tm \in OptionalField("teamIds", {Arr(<<>>), Arr(<<"team-2", "team-1">>)}),
     as \in OptionalField("assigneeIds", {Arr(<<"user-1">>)}),
     st \in OptionalField("states", {Arr(<<"Todo", "Done">>)}),
     pr \in OptionalField("priority", {Num(0), Num(2), Str(<<"2">>), NaN})}

\* the paging and ordering fields of SearchIssuesInput, every combination
SearchPaging ==
  {Spread(Spread(fi, af), ob) :
     fi \in OptionalField("first", {Num(0), Num(1), Num(10), Num(DefaultFirst)}),
     af \in OptionalField("after", {Str(<<>>), Str(<<"cursor123">>)}),
     ob \in OptionalField("orderBy", {Str(<<>>), Str(<<"createdAt_ASC">>),
                                        Str(<<"updatedAt_DESC">>), Str(<<"priority">>)})}

\* SearchIssuesInput objects handed to handleSearchIssues: every combination
\* of predicates without paging, and every paging with two of them
SearchIssuesInputs ==
  SearchPredicates
    \cup {Spread(p, g) :
            p \in {EmptyObject,
                   [query |-> Str(<<"E", "N", "G", "-", "4", "2">>), priority |-> Num(0)]},
            g \in SearchPaging}

-----------------------------------------------------------------------------
(* The transport: linearClient.client.rawRequest *)

NoReply == [st |-> "none"]

Resolved(d) == [st |-> "resolved", data |-> d]

Rejected(e) == [st |-> "rejected", error |-> e]

\* what a rawRequest may reject with: an Error, or a thrown non-Error value
Rejections ==
  {Rejected(Error(<<"Network error">>)),
   Rejected([isError |-> FALSE, message |-> <<"thrown value">>])}

Issue1 == [id |-> "issue-1", identifier |-> "TEST-1", title |-> "Title"]

Issue2 == [id |-> "issue-2", identifier |-> "TEST-2", title |-> "Title"]

Project1 == [id |-> "project-1", name |-> "New Project"]

Project2 == [id |-> "project-2", name |-> "New Project"]

\* data a backend may answer a document with
DataOf(doc) ==
  CASE doc = "CREATE_ISSUE_MUTATION" ->
         {[issueCreate |-> r] :
            r \in {[success |-> TRUE, issue |-> Issue1],
                   [success |-> TRUE],
                   [success |-> TRUE, issue |-> Null],
                   [success |-> TRUE, issues |-> <<Issue1>>],
                   [success |-> FALSE]}}
    [] doc = "CREATE_BATCH_ISSUES" ->
         {[issueBatchCreate |-> r] :
            r \in {[success |-> TRUE, issues |-> <<Issue1>>, lastSyncId |-> 124],
                   [success |-> TRUE, issues |-> <<Issue2, Issue1>>, lastSyncId |-> 125],
                   [success |-> FALSE, issues |-> <<>>, lastSyncId |-> 124]}}
    [] doc = "CREATE_PROJECT" ->
         {[projectCreate |-> r] :
            r \in {[success |-> TRUE, project |-> Project1, lastSyncId |-> 123],
                   [success |-> TRUE, project |-> Project2, lastSyncId |-> 126],
                   [success |-> TRUE, project |-> Null, lastSyncId |-> 123],
                   [success |-> FALSE, project |-> Null, lastSyncId |-> 123]}}
    [] doc \in {"UPDATE_ISSUE_MUTATION", "UPDATE_ISSUES_MUTATION"} ->
         {Spread(u, b) :
            u \in {EmptyObject} \cup
                  {[issueUpdate |-> [success |-> s, issues |-> <<Issue1>>]] :
                     s \in BOOLEAN},
            b \in {EmptyObject} \cup
                  {[issueBatchUpdate |-> [success |-> s, issues |-> <<Issue1, Issue2>>]] :
                     s \in BOOLEAN}}
    [] doc \in {"DELETE_ISSUE_MUTATION", "DELETE_ISSUES_MUTATION"} ->
         {[issueDelete |-> [success |-> s]] : s \in BOOLEAN}
    [] doc = "SEARCH_ISSUES_QUERY" ->
         {[issues |-> r] :
            r \in {[pageInfo |-> [hasNextPage |-> TRUE,
                                  endCursor |-> Str(<<"cursor456">>)],
                    nodes |-> <<Issue2, Issue1>>],
                   [pageInfo |-> [hasNextPage |-> FALSE, endCursor |-> Null],
                    nodes |-> <<Issue1, Issue2>>]}}

Replies(doc) == {Resolved(d) : d \in DataOf(doc)} \cup Rejections

-----------------------------------------------------------------------------
(* LinearGraphQLClient *)

\* execute(): the data of the response, or the error it throws
\* execute handing back a search payload with its nodes in the opposite
\* order and no end cursor
execute_reshaping(r) ==
  IF r.st = "resolved"
  THEN [threw |-> FALSE,
        value |-> IF Has(r.data, "issues")
                  THEN [issues |->
                          [pageInfo |-> [hasNextPage |-> r.data.issues.pageInfo.hasNextPage,
                                         endCursor |-> Null],
                           nodes |-> [i \in 1..Len(r.data.issues.nodes) |->
                                        r.data.issues.nodes[Len(r.data.issues.nodes) + 1 - i]]]]
                  ELSE r.data]
  ELSE IF r.error.isError
       THEN [threw |-> TRUE,
             error |-> Error(<<"GraphQL operation failed: ">> \o r.error.message)]
       ELSE [threw |-> TRUE, error |-> r.error]

\* execute rethrowing the transport's error as it came
execute_rethrowing(r) ==
  IF r.st = "resolved" THEN [threw |-> FALSE, value |-> r.data]
  ELSE [threw |-> TRUE, error |-> r.error]

execute(r) ==
  IF r.st = "resolved" THEN [threw |-> FALSE, value |-> r.data]
  ELSE IF r.error.isError
       THEN [threw |-> TRUE,
             error |-> Error(<<"GraphQL operation failed: ">> \o r.error.message)]
       ELSE [threw |-> TRUE, error |-> r.error]

NoResult == [st |-> "none"]

\* the rawRequest each client method issues: its document and its variables
createIssue(input) ==
  [document |-> "CREATE_ISSUE_MUTATION", variables |-> [input |-> input]]

\* mutant: the list bound as input itself, not wrapped as { issues }
createIssues_unwrapped(issues) ==
  [document |-> "CREATE_BATCH_ISSUES", variables |-> [input |-> issues]]

createIssues(issues) ==
  [document |-> "CREATE_BATCH_ISSUES", variables |-> [input |-> [issues |-> issues]]]

createProject(input) ==
  [document |-> "CREATE_PROJECT", variables |-> [input |-> input]]

createBatchIssues(issues) ==
  [document |-> "CREATE_BATCH_ISSUES", variables |-> [input |-> [issues |-> issues]]]

updateIssue(id, input) ==
  [document |-> "UPDATE_ISSUE_MUTATION", variables |-> [id |-> id, input |-> input]]

updateIssues(ids, input) ==
  [document |-> "UPDATE_ISSUES_MUTATION", variables |-> [ids |-> ids, input |-> input]]

deleteIssue(id) ==
  [document |-> "DELETE_ISSUE_MUTATION", variables |-> [id |-> id]]

\* the list sent on the single-delete document
deleteIssues_onSingleDocument(ids) ==
  [document |-> "DELETE_ISSUE_MUTATION", variables |-> [ids |-> ids]]

deleteIssues(ids) ==
  [document |-> "DELETE_ISSUES_MUTATION", variables |-> [ids |-> ids]]

\* searchIssues binding after || null
searchIssues_afterOrNull(filter, first, after, orderBy) ==
  [document |-> "SEARCH_ISSUES_QUERY",
   variables |-> [filter  |-> filter,
                  first   |-> IF first = Undefined THEN Num(DefaultFirst) ELSE first,
                  after   |-> IF Truthy(after) THEN after ELSE Null,
                  orderBy |-> IF orderBy = Undefined THEN Str(<<"updatedAt">>)
                              ELSE orderBy]]

searchIssues(filter, first, after, orderBy) ==
  [document |-> "SEARCH_ISSUES_QUERY",
   variables |-> [filter  |-> filter,
                  first   |-> IF first = Undefined THEN Num(DefaultFirst) ELSE first,
                  after   |-> after,
                  orderBy |-> IF orderBy = Undefined THEN Str(<<"updatedAt">>)
                              ELSE orderBy]]

\* the variables each mutation document declares ($name)
DeclaredVariables(doc) ==
  CASE doc = "CREATE_ISSUE_MUTATION"  -> {"input"}
    [] doc = "CREATE_BATCH_ISSUES"    -> {"input"}
    [] doc = "CREATE_PROJECT"         -> {"input"}
    [] doc = "UPDATE_ISSUE_MUTATION"  -> {"id", "input"}
    [] doc = "UPDATE_ISSUES_MUTATION" -> {"input"}
    [] doc = "DELETE_ISSUE_MUTATION"  -> {"id"}
    [] doc = "DELETE_ISSUES_MUTATION" -> {"ids"}

-----------------------------------------------------------------------------
(* BaseHandler: session check, required parameters, outcome shapes *)

NoOutcome == [kind |-> "none"]

verifyAuth(session) == session

validateRequiredParams(params, required) == \A k \in required : Has(params, k)

AuthError == Error(<<"Not authenticated">>)

MissingParams == Error(<<"Missing required parameters">>)

createResponse(content) == [kind |-> "response", content |-> content]

handleError(error, operation) ==
  [kind |-> "failure", operation |-> operation, error |-> error]

-----------------------------------------------------------------------------
(* Steps shared by every entry point *)

\* the invocation is entered with its arguments
Enter(h, a, session) ==
  /\ pc = "idle"
  /\ handler' = h
  /\ args' = a
  /\ supplied' = a
  /\ authenticated' = session
  /\ UNCHANGED peer

\* the invocation ends with outcome o
Finish(o) ==
  /\ pc' = "done"
  /\ outcome' = o
  /\ awaiting' = FALSE
  /\ reply' = reply

\* the invocation issues one rawRequest and suspends at await point `at`
Request(call, at) ==
  /\ calls' = Append(calls, call)
  /\ awaiting' = TRUE
  /\ reply' = NoReply
  /\ pc' = at
  /\ outcome' = NoOutcome

\* the outstanding rawRequest settles
RawRequestSettles ==
  /\ awaiting
  /\ \E r \in Replies(calls[Len(calls)].document) : reply' = r
  /\ awaiting' = FALSE
  /\ UNCHANGED <<pc, handler, args, supplied, authenticated, calls,
                 projectResult, clientResult, outcome, peer>>

Resumes(at) == pc = at /\ ~awaiting /\ reply # NoReply

-----------------------------------------------------------------------------
(* IssueHandler.handleCreateIssue *)

\* mutant: an estimate that fails to parse is kept as NaN
normalizeEstimate_keepNaN(p) ==
  IF Has(p, "estimate")
  THEN With(p, "estimate", parseInt(StringOf(p.estimate)))
  ELSE p

\* mutant: the upper end of the range is not checked
normalizePriority_noUpperBound(p) ==
  IF Has(p, "priority")
  THEN LET n == parseInt(StringOf(p.priority))
       IN IF isNaN(n) \/ n.n < 0
          THEN With(p, "priority", Num(0))
          ELSE With(p, "priority", n)
  ELSE p

normalizeEstimate(p) ==
  IF Has(p, "estimate")
  THEN LET n == parseInt(StringOf(p.estimate))
       IN IF isNaN(n) THEN Without(p, "estimate") ELSE With(p, "estimate", n)
  ELSE p

normalizePriority(p) ==
  IF Has(p, "priority")
  THEN LET n == parseInt(StringOf(p.priority))
       IN IF isNaN(n) \/ n.n < 0 \/ n.n > 4
          THEN With(p, "priority", Num(0))
          ELSE With(p, "priority", n)
  ELSE p

processedArgs(a) == normalizePriority(normalizeEstimate(Spread(EmptyObject, a)))

\* the handler repairing estimate and priority in the caller's own object
handleCreateIssue_inPlace(a, session) ==
  /\ pc = "idle"
  /\ handler' = "handleCreateIssue"
  /\ supplied' = a
  /\ authenticated' = session
  /\ UNCHANGED <<peer, projectResult>>
  /\ clientResult' = NoResult
  /\ IF ~verifyAuth(session)
     THEN /\ Finish(handleError(AuthError, "create issue"))
          /\ args' = a
          /\ UNCHANGED calls
     ELSE IF ~validateRequiredParams(a, {"title", "description", "teamId"})
     THEN /\ Finish(handleError(MissingParams, "create issue"))
          /\ args' = a
          /\ UNCHANGED calls
     ELSE /\ Request(createIssue(processedArgs(a)), "handleCreateIssue")
          /\ args' = processedArgs(a)

handleCreateIssue(a, session) ==
  /\ Enter("handleCreateIssue", a, session)
  /\ UNCHANGED projectResult
  /\ clientResult' = NoResult
  /\ IF ~verifyAuth(session)
     THEN Finish(handleError(AuthError, "create issue")) /\ UNCHANGED calls
     ELSE IF ~validateRequiredParams(a, {"title", "description", "teamId"})
     THEN Finish(handleError(MissingParams, "create issue")) /\ UNCHANGED calls
     ELSE Request(createIssue(processedArgs(a)), "handleCreateIssue")

\* the continuation taking the plural issues field for the created issue too
handleCreateIssueResumes_acceptingPlural ==
  /\ Resumes("handleCreateIssue")
  /\ LET result == execute(reply)
     IN IF result.threw
        THEN Finish(handleError(result.error, "create issue"))
        ELSE IF ~result.value.issueCreate.success
                \/ (~Has(result.value.issueCreate, "issue")
                      /\ ~Has(result.value.issueCreate, "issues"))
        THEN Finish(handleError(Error(<<"Failed to create issue">>), "create issue"))
        ELSE Finish(createResponse(
               <<"Successfully created issue",
                 IF Has(result.value.issueCreate, "issue")
                 THEN result.value.issueCreate.issue
                 ELSE result.value.issueCreate.issues[1]>>))
  /\ clientResult' = execute(reply)
  /\ UNCHANGED <<peer, handler, args, supplied, authenticated, calls, projectResult>>

handleCreateIssueResumes ==
  /\ Resumes("handleCreateIssue")
  /\ LET result == execute(reply)
     IN IF result.threw
        THEN Finish(handleError(result.error, "create issue"))
        ELSE IF ~result.value.issueCreate.success
                \/ ~Has(result.value.issueCreate, "issue")
                \/ result.value.issueCreate.issue = Null
        THEN Finish(handleError(Error(<<"Failed to create issue">>), "create issue"))
        ELSE Finish(createResponse(
               <<"Successfully created issue", result.value.issueCreate.issue>>))
  /\ clientResult' = execute(reply)
  /\ UNCHANGED <<peer, handler, args, supplied, authenticated, calls, projectResult>>

-----------------------------------------------------------------------------
(* IssueHandler.handleCreateIssues *)

handleCreateIssues(a, session) ==
  /\ Enter("handleCreateIssues", a, session)
  /\ UNCHANGED projectResult
  /\ clientResult' = NoResult
  /\ IF ~verifyAuth(session)
     THEN Finish(handleError(AuthError, "create issues")) /\ UNCHANGED calls
     ELSE IF ~validateRequiredParams(a, {"issues"})
     THEN Finish(handleError(MissingParams, "create issues")) /\ UNCHANGED calls
     ELSE IF ~isArray(a.issues)
     THEN Finish(handleError(Error(<<"Issues parameter must be an array">>),
                             "create issues")) /\ UNCHANGED calls
     ELSE Request(createIssues(a.issues), "handleCreateIssues")

handleCreateIssuesResumes ==
  /\ Resumes("handleCreateIssues")
  /\ LET result == execute(reply)
     IN IF result.threw
        THEN Finish(handleError(result.error, "create issues"))
        ELSE IF ~result.value.issueBatchCreate.success
        THEN Finish(handleError(Error(<<"Failed to create issues">>), "create issues"))
        ELSE Finish(createResponse(
               <<"Successfully created issues", result.value.issueBatchCreate.issues>>))
  /\ clientResult' = execute(reply)
  /\ UNCHANGED <<peer, handler, args, supplied, authenticated, calls, projectResult>>

-----------------------------------------------------------------------------
(* IssueHandler.handleBulkUpdateIssues *)

\* the branch condition: a single issue goes to updateIssue
isSingleUpdate(issueIds) == Len(issueIds.items) = 1

\* the handler refusing an empty list of identifiers
handleBulkUpdateIssues_refusingNone(a, session) ==
  /\ Enter("handleBulkUpdateIssues", a, session)
  /\ UNCHANGED projectResult
  /\ clientResult' = NoResult
  /\ IF ~verifyAuth(session)
     THEN Finish(handleError(AuthError, "update issues")) /\ UNCHANGED calls
     ELSE IF ~validateRequiredParams(a, {"issueIds", "update"})
     THEN Finish(handleError(MissingParams, "update issues")) /\ UNCHANGED calls
     ELSE IF ~isArray(a.issueIds)
     THEN Finish(handleError(Error(<<"IssueIds parameter must be an array">>),
                             "update issues")) /\ UNCHANGED calls
     ELSE IF a.issueIds.items = <<>>
     THEN Finish(handleError(Error(<<"IssueIds parameter must not be empty">>),
                             "update issues")) /\ UNCHANGED calls
     ELSE IF isSingleUpdate(a.issueIds)
     THEN Request(updateIssue(a.issueIds.items[1], a.update),
                  "handleBulkUpdateIssues:single")
     ELSE Request(updateIssues(a.issueIds, a.update),
                  "handleBulkUpdateIssues:bulk")

handleBulkUpdateIssues(a, session) ==
  /\ Enter("handleBulkUpdateIssues", a, session)
  /\ UNCHANGED projectResult
  /\ clientResult' = NoResult
  /\ IF ~verifyAuth(session)
     THEN Finish(handleError(AuthError, "update issues")) /\ UNCHANGED calls
     ELSE IF ~validateRequiredParams(a, {"issueIds", "update"})
     THEN Finish(handleError(MissingParams, "update issues")) /\ UNCHANGED calls
     ELSE IF ~isArray(a.issueIds)
     THEN Finish(handleError(Error(<<"IssueIds parameter must be an array">>),
                             "update issues")) /\ UNCHANGED calls
     ELSE IF isSingleUpdate(a.issueIds)
     THEN Request(updateIssue(a.issueIds.items[1], a.update),
                  "handleBulkUpdateIssues:single")
     ELSE Request(updateIssues(a.issueIds, a.update),
                  "handleBulkUpdateIssues:bulk")

\* mutant: success probed in whichever field the response carries
singleUpdateSucceeded_probing(result) ==
  \/ Has(result, "issueUpdate") /\ result.issueUpdate.success
  \/ Has(result, "issueBatchUpdate") /\ result.issueBatchUpdate.success

\* result.issueUpdate?.success
singleUpdateSucceeded(result) ==
  Has(result, "issueUpdate") /\ result.issueUpdate.success

\* the bulk result read for its presence only
bulkUpdateSucceeded_present(result) == Has(result, "issueBatchUpdate")

\* result.issueBatchUpdate?.success
bulkUpdateSucceeded(result) ==
  Has(result, "issueBatchUpdate") /\ result.issueBatchUpdate.success

handleBulkUpdateIssuesSingleResumes ==
  /\ Resumes("handleBulkUpdateIssues:single")
  /\ LET result == execute(reply)
     IN IF result.threw
        THEN Finish(handleError(result.error, "update issues"))
        ELSE IF ~singleUpdateSucceeded(result.value)
        THEN Finish(handleError(Error(<<"Failed to update issue">>), "update issues"))
        ELSE Finish(createResponse(<<"Successfully updated issue">>))
  /\ clientResult' = execute(reply)
  /\ UNCHANGED <<peer, handler, args, supplied, authenticated, calls, projectResult>>

handleBulkUpdateIssuesBulkResumes ==
  /\ Resumes("handleBulkUpdateIssues:bulk")
  /\ LET result == execute(reply)
     IN IF result.threw
        THEN Finish(handleError(result.error, "update issues"))
        ELSE IF ~bulkUpdateSucceeded(result.value)
        THEN Finish(handleError(Error(<<"Failed to update issues">>), "update issues"))
        ELSE Finish(createResponse(
               <<"Successfully updated issues",
                 Len(result.value.issueBatchUpdate.issues)>>))
  /\ clientResult' = execute(reply)
  /\ UNCHANGED <<peer, handler, args, supplied, authenticated, calls, projectResult>>

-----------------------------------------------------------------------------
(* IssueHandler.handleDeleteIssue and handleDeleteIssues *)

handleDeleteIssue(a, session) ==
  /\ Enter("handleDeleteIssue", a, session)
  /\ UNCHANGED projectResult
  /\ clientResult' = NoResult
  /\ IF ~verifyAuth(session)
     THEN Finish(handleError(AuthError, "delete issue")) /\ UNCHANGED calls
     ELSE IF ~validateRequiredParams(a, {"id"})
     THEN Finish(handleError(MissingParams, "delete issue")) /\ UNCHANGED calls
     ELSE Request(deleteIssue(a.id), "handleDeleteIssue")

handleDeleteIssueResumes ==
  /\ Resumes("handleDeleteIssue")
  /\ LET result == execute(reply)
     IN IF result.threw
        THEN Finish(handleError(result.error, "delete issue"))
        ELSE IF ~result.value.issueDelete.success
        THEN Finish(handleError(Error(<<"Failed to delete issue">>), "delete issue"))
        ELSE Finish(createResponse(<<"Successfully deleted issue", args.id>>))
  /\ clientResult' = execute(reply)
  /\ UNCHANGED <<peer, handler, args, supplied, authenticated, calls, projectResult>>

handleDeleteIssues(a, session) ==
  /\ Enter("handleDeleteIssues", a, session)
  /\ UNCHANGED projectResult
  /\ clientResult' = NoResult
  /\ IF ~verifyAuth(session)
     THEN Finish(handleError(AuthError, "delete issues")) /\ UNCHANGED calls
     ELSE IF ~validateRequiredParams(a, {"ids"})
     THEN Finish(handleError(MissingParams, "delete issues")) /\ UNCHANGED calls
     ELSE IF ~isArray(a.ids)
     THEN Finish(handleError(Error(<<"Ids parameter must be an array">>),
                             "delete issues")) /\ UNCHANGED calls
     ELSE Request(deleteIssues(a.ids), "handleDeleteIssues")

handleDeleteIssuesResumes ==
  /\ Resumes("handleDeleteIssues")
  /\ LET result == execute(reply)
     IN IF result.threw
        THEN Finish(handleError(result.error, "delete issues"))
        ELSE IF ~result.value.issueDelete.success
        THEN Finish(handleError(Error(<<"Failed to delete issues">>), "delete issues"))
        ELSE Finish(createResponse(<<"Successfully deleted issues", args.ids.items>>))
  /\ clientResult' = execute(reply)
  /\ UNCHANGED <<peer, handler, args, supplied, authenticated, calls, projectResult>>

-----------------------------------------------------------------------------
(* IssueHandler.handleSearchIssues *)

UpperCase ==
  {"A", "B", "C", "D", "E", "F", "G", "H", "I", "J", "K", "L", "M",
   "N", "O", "P", "Q", "R", "S", "T", "U", "V", "W", "X", "Y", "Z"}

RECURSIVE UpperPrefix(_)
UpperPrefix(s) ==
  IF s # <<>> /\ Head(s) \in UpperCase THEN <<Head(s)>> \o UpperPrefix(Tail(s))
  ELSE <<>>

\* the same match without the closing anchor
matchIdentifier_unanchored(query) ==
  LET letters == UpperPrefix(query)
      rest    == SubSeq(query, Len(letters) + 1, Len(query))
      digits  == IF rest = <<>> THEN <<>> ELSE Tail(rest)
  IN IF letters # <<>> /\ rest # <<>> /\ Head(rest) = "-"
     THEN DigitPrefix(digits)
     ELSE <<>>

\* query.match(/^[A-Z]+-(\d+)$/): the digit group, or <<>> when no match
matchIdentifier(query) ==
  LET letters == UpperPrefix(query)
      rest    == SubSeq(query, Len(letters) + 1, Len(query))
      digits  == IF rest = <<>> THEN <<>> ELSE Tail(rest)
  IN IF /\ letters # <<>>
        /\ rest # <<>>
        /\ Head(rest) = "-"
        /\ digits # <<>>
        /\ DigitPrefix(digits) = digits
     THEN digits
     ELSE <<>>

extractIssueNumber(query) ==
  LET group == matchIdentifier(query)
  IN IF group # <<>> THEN parseInt(group) ELSE Null

\* one object per predicate: its key when the predicate is taken, none otherwise
queryFilter(a) ==
  IF Truthy(Get(a, "query"))
  THEN [or |-> <<[title |-> [containsIgnoreCase |-> a.query]],
                 [number |-> [eq |-> extractIssueNumber(a.query.s)]]>>]
  ELSE EmptyObject

\* args.filter?.project?.id?.eq
projectIdEq(a) ==
  IF /\ Has(a, "filter")
     /\ Has(a.filter, "project")
     /\ Has(a.filter.project, "id")
     /\ Has(a.filter.project.id, "eq")
  THEN a.filter.project.id.eq
  ELSE Undefined

projectFilter(a) ==
  IF Truthy(projectIdEq(a)) THEN [project |-> [id |-> [eq |-> projectIdEq(a)]]]
  ELSE EmptyObject

teamFilter(a) ==
  IF Truthy(Get(a, "teamIds")) THEN [team |-> [id |-> [in |-> a.teamIds]]]
  ELSE EmptyObject

\* the assignee predicate written under the team key
assigneeFilter_asTeam(a) ==
  IF Truthy(Get(a, "assigneeIds")) THEN [team |-> [id |-> [in |-> a.assigneeIds]]]
  ELSE EmptyObject

assigneeFilter(a) ==
  IF Truthy(Get(a, "assigneeIds")) THEN [assignee |-> [id |-> [in |-> a.assigneeIds]]]
  ELSE EmptyObject

stateFilter(a) ==
  IF Truthy(Get(a, "states")) THEN [state |-> [name |-> [in |-> a.states]]]
  ELSE EmptyObject

\* the priority predicate under a truthiness test
priorityFilter_truthy(a) ==
  IF Truthy(Get(a, "priority")) THEN [priority |-> [eq |-> a.priority]]
  ELSE EmptyObject

priorityFilter(a) ==
  IF isNumber(Get(a, "priority")) THEN [priority |-> [eq |-> a.priority]]
  ELSE EmptyObject

\* the filter object after the six assignments
buildFilter(a) ==
  Spread(Spread(Spread(Spread(Spread(queryFilter(a), projectFilter(a)),
                              teamFilter(a)), assigneeFilter(a)),
                stateFilter(a)), priorityFilter(a))

\* args.first || 50
pageSize(a) == IF Truthy(Get(a, "first")) THEN a.first ELSE Num(DefaultFirst)

\* args.orderBy || 'updatedAt'
orderByOf(a) == IF Truthy(Get(a, "orderBy")) THEN a.orderBy ELSE Str(<<"updatedAt">>)

createJsonResponse(data) == [kind |-> "response", content |-> data]

handleSearchIssues(a, session) ==
  /\ Enter("handleSearchIssues", a, session)
  /\ UNCHANGED projectResult
  /\ clientResult' = NoResult
  /\ IF ~verifyAuth(session)
     THEN Finish(handleError(AuthError, "search issues")) /\ UNCHANGED calls
     ELSE Request(searchIssues(buildFilter(a), pageSize(a), Get(a, "after"),
                               orderByOf(a)),
                  "handleSearchIssues")

\* the search sending its call again whenever the transport rejects it
handleSearchIssuesResumes_untilAnswered ==
  /\ Resumes("handleSearchIssues")
  /\ IF reply.st = "rejected"
     THEN /\ awaiting' = TRUE
          /\ reply' = NoReply
          /\ UNCHANGED <<pc, outcome>>
     ELSE Finish(createJsonResponse(execute(reply).value))
  /\ clientResult' = execute(reply)
  /\ UNCHANGED <<peer, handler, args, supplied, authenticated, calls, projectResult>>

\* the search resuming with one more attempt after a rejected call
handleSearchIssuesResumes_retrying ==
  /\ Resumes("handleSearchIssues")
  /\ IF reply.st = "rejected" /\ Len(calls) < 2
     THEN Request(calls[1], "handleSearchIssues")
     ELSE /\ LET result == execute(reply)
             IN IF result.threw
                THEN Finish(handleError(result.error, "search issues"))
                ELSE Finish(createJsonResponse(result.value))
          /\ UNCHANGED calls
  /\ clientResult' = execute(reply)
  /\ UNCHANGED <<peer, handler, args, supplied, authenticated, projectResult>>

handleSearchIssuesResumes ==
  /\ Resumes("handleSearchIssues")
  /\ LET result == execute(reply)
     IN IF result.threw
        THEN Finish(handleError(result.error, "search issues"))
        ELSE Finish(createJsonResponse(result.value))
  /\ clientResult' = execute(reply)
  /\ UNCHANGED <<peer, handler, args, supplied, authenticated, calls, projectResult>>

-----------------------------------------------------------------------------
(* LinearGraphQLClient.createProjectWithIssues *)

\* outcomes of a client method called directly
\* a return value that keeps the first step's part only
returned_projectOnly(value) ==
  [kind |-> "returned", value |-> [projectCreate |-> value.projectCreate]]

returned(value) == [kind |-> "returned", value |-> value]

threw(error) == [kind |-> "threw", error |-> error]

TypeError == Error(<<"Cannot read properties of null (reading 'id')">>)

\* mutant: the spread comes last, so a caller's projectId survives
issuesWithProject_callerWins(issues, projectId) ==
  Arr([i \in 1..Len(issues.items) |->
         Spread([projectId |-> projectId], issues.items[i])])

\* issues.map(issue => ({ ...issue, projectId }))
issuesWithProject(issues, projectId) ==
  Arr([i \in 1..Len(issues.items) |->
         Spread(issues.items[i], [projectId |-> projectId])])

\* mutant: the project step's success flag is not looked at
projectStepFailed_ignored(result) == FALSE

\* !projectResult.projectCreate.success
projectStepFailed(result) == ~result.projectCreate.success

\* mutant: the issues step's success flag is not looked at
issuesStepFailed_ignored(result) == FALSE

\* !issuesResult.issueBatchCreate.success
issuesStepFailed(result) == ~result.issueBatchCreate.success

\* both steps issued at once, neither awaited before the other
createProjectWithIssues_inParallel(a) ==
  /\ Enter("createProjectWithIssues", a, TRUE)
  /\ UNCHANGED projectResult
  /\ clientResult' = NoResult
  /\ calls' = <<createProject(a.projectInput), createBatchIssues(a.issues)>>
  /\ awaiting' = TRUE
  /\ reply' = NoReply
  /\ pc' = "createProjectWithIssues:project"
  /\ outcome' = NoOutcome

createProjectWithIssues(a) ==
  /\ Enter("createProjectWithIssues", a, TRUE)
  /\ UNCHANGED projectResult
  /\ clientResult' = NoResult
  /\ Request(createProject(a.projectInput), "createProjectWithIssues:project")

\* the composite going on to its second step after a rejected first call
createProjectWithIssuesProjectResumes_goingOn ==
  /\ Resumes("createProjectWithIssues:project")
  /\ IF execute(reply).threw
     THEN Request(createBatchIssues(args.issues), "createProjectWithIssues:issues")
     ELSE Finish(threw(Error(<<"Failed to create project">>))) /\ UNCHANGED calls
  /\ clientResult' = execute(reply)
  /\ UNCHANGED <<peer, handler, args, supplied, authenticated, projectResult>>

createProjectWithIssuesProjectResumes ==
  /\ Resumes("createProjectWithIssues:project")
  /\ LET result == execute(reply)
     IN IF result.threw
        THEN Finish(threw(result.error)) /\ UNCHANGED <<calls, projectResult>>
        ELSE IF projectStepFailed(result.value)
        THEN /\ Finish(threw(Error(<<"Failed to create project">>)))
             /\ UNCHANGED calls
             /\ projectResult' = result.value
        ELSE IF result.value.projectCreate.project = Null /\ args.issues.items # <<>>
        THEN /\ Finish(threw(TypeError))
             /\ UNCHANGED calls
             /\ projectResult' = result.value
        ELSE /\ projectResult' = result.value
             /\ Request(createBatchIssues(
                          IF args.issues.items = <<>> THEN Arr(<<>>)
                          ELSE issuesWithProject(args.issues,
                                 result.value.projectCreate.project.id)),
                        "createProjectWithIssues:issues")
  /\ clientResult' = execute(reply)
  /\ UNCHANGED <<peer, handler, args, supplied, authenticated>>

createProjectWithIssuesIssuesResumes ==
  /\ Resumes("createProjectWithIssues:issues")
  /\ LET result == execute(reply)
     IN IF result.threw
        THEN Finish(threw(result.error))
        ELSE IF issuesStepFailed(result.value)
        THEN Finish(threw(Error(<<"Failed to create issues">>)))
        ELSE Finish(returned([projectCreate |-> projectResult.projectCreate,
                              issueBatchCreate |-> result.value.issueBatchCreate]))
  /\ clientResult' = execute(reply)
  /\ UNCHANGED <<peer, handler, args, supplied, authenticated, calls, projectResult>>

-----------------------------------------------------------------------------
(* The caller takes the outcome; the next invocation starts afresh *)

\* no second invocation
NoPeer ==
  [pc |-> "idle", handler |-> "none", args |-> <<>>, authenticated |-> FALSE,
   calls |-> <<>>, awaiting |-> FALSE, reply |-> NoReply, outcome |-> NoOutcome]

NoArgs == EmptyObject

NoProject == [st |-> "none"]

Return ==
  /\ pc = "done"
  /\ pc' = "idle"
  /\ handler' = "none"
  /\ args' = NoArgs
  /\ supplied' = NoArgs
  /\ authenticated' = FALSE
  /\ calls' = <<>>
  /\ awaiting' = FALSE
  /\ reply' = NoReply
  /\ projectResult' = NoProject
  /\ clientResult' = NoResult
  /\ outcome' = NoOutcome
  /\ UNCHANGED peer

Init ==
  /\ pc = "idle"
  /\ handler = "none"
  /\ args = NoArgs
  /\ supplied = NoArgs
  /\ authenticated = FALSE
  /\ calls = <<>>
  /\ awaiting = FALSE
  /\ reply = NoReply
  /\ projectResult = NoProject
  /\ clientResult = NoResult
  /\ outcome = NoOutcome
  /\ peer = NoPeer

Next ==
  \/ pc = "idle" /\ \E a \in CreateIssueInputs, s \in BOOLEAN : handleCreateIssue(a, s)
  \/ handleCreateIssueResumes
  \/ pc = "idle" /\ \E a \in CreateIssuesInputs, s \in BOOLEAN : handleCreateIssues(a, s)
  \/ handleCreateIssuesResumes
  \/ pc = "idle" /\ \E a \in BulkUpdateIssuesInputs, s \in BOOLEAN :
                      handleBulkUpdateIssues(a, s)
  \/ handleBulkUpdateIssuesSingleResumes
  \/ handleBulkUpdateIssuesBulkResumes
  \/ pc = "idle" /\ \E a \in DeleteIssueInputs, s \in BOOLEAN : handleDeleteIssue(a, s)
  \/ handleDeleteIssueResumes
  \/ pc = "idle" /\ \E a \in DeleteIssuesInputs, s \in BOOLEAN : handleDeleteIssues(a, s)
  \/ handleDeleteIssuesResumes
  \/ pc = "idle" /\ \E a \in SearchIssuesInputs, s \in BOOLEAN : handleSearchIssues(a, s)
  \/ handleSearchIssuesResumes
  \/ pc = "idle" /\ \E a \in ProjectWithIssuesInputs : createProjectWithIssues(a)
  \/ createProjectWithIssuesProjectResumes
  \/ createProjectWithIssuesIssuesResumes
  \/ RawRequestSettles
  \/ Return

Spec == Init /\ [][Next]_vars

\* the continuations of the await points
Resuming ==
  \/ handleCreateIssueResumes
  \/ handleCreateIssuesResumes
  \/ handleBulkUpdateIssuesSingleResumes
  \/ handleBulkUpdateIssuesBulkResumes
  \/ handleDeleteIssueResumes
  \/ handleDeleteIssuesResumes
  \/ handleSearchIssuesResumes
  \/ createProjectWithIssuesProjectResumes
  \/ createProjectWithIssuesIssuesResumes

\* every rawRequest settles, and a settled await is resumed
LiveSpec == Spec /\ WF_vars(RawRequestSettles) /\ WF_vars(Resuming)

-----------------------------------------------------------------------------
(* Two invocations on one client: the one above and a second one, `peer`,
   whose steps interleave with it in any order *)

\* arguments of the searches that run side by side
ConcurrentSearchInputs ==
  {EmptyObject,
   [query |-> Str(<<"E", "N", "G", "-", "4", "2">>), first |-> Num(10),
    after |-> Str(<<"cursor123">>)],
   [teamIds |-> Arr(<<"team-1">>), priority |-> Num(0),
    orderBy |-> Str(<<"createdAt_ASC">>)]}

\* the second invocation as it stands right after entering handler h: ended
\* by authentication or validation, or suspended on its one call
entered(h, a, session) ==
  LET ended(o) ==
        [pc |-> "done", handler |-> h, args |-> a, authenticated |-> session,
         calls |-> <<>>, awaiting |-> FALSE, reply |-> NoReply, outcome |-> o]
      requested(call) ==
        [pc |-> h, handler |-> h, args |-> a, authenticated |-> session,
         calls |-> <<call>>, awaiting |-> TRUE, reply |-> NoReply,
         outcome |-> NoOutcome]
  IN CASE h = "handleSearchIssues" ->
            IF ~verifyAuth(session)
            THEN ended(handleError(AuthError, "search issues"))
            ELSE requested(searchIssues(buildFilter(a), pageSize(a), Get(a, "after"),
                                        orderByOf(a)))
       [] h = "handleDeleteIssue" ->
            IF ~verifyAuth(session)
            THEN ended(handleError(AuthError, "delete issue"))
            ELSE IF ~validateRequiredParams(a, {"id"})
            THEN ended(handleError(MissingParams, "delete issue"))
            ELSE requested(deleteIssue(a.id))

\* the outcome of handler h once its call has settled with r
resumed(h, a, r) ==
  LET result == execute(r)
  IN CASE h = "handleSearchIssues" ->
            IF result.threw THEN handleError(result.error, "search issues")
            ELSE createJsonResponse(result.value)
       [] h = "handleDeleteIssue" ->
            IF result.threw THEN handleError(result.error, "delete issue")
            ELSE IF ~result.value.issueDelete.success
            THEN handleError(Error(<<"Failed to delete issue">>), "delete issue")
            ELSE createResponse(<<"Successfully deleted issue", a.id>>)

peerEnters(h, a, session) ==
  /\ peer.pc = "idle"
  /\ peer' = entered(h, a, session)
  /\ UNCHANGED invocation

peerRequestSettles ==
  /\ peer.awaiting
  /\ \E r \in Replies(peer.calls[Len(peer.calls)].document) :
       peer' = [peer EXCEPT !.reply = r, !.awaiting = FALSE]
  /\ UNCHANGED invocation

\* the second invocation resuming on the response the client received last,
\* kept in a place both invocations use
peerResumes_onLastResponse ==
  /\ peer.pc \notin {"idle", "done"}
  /\ ~peer.awaiting
  /\ peer' = [peer EXCEPT
                !.pc = "done",
                !.outcome = resumed(peer.handler, peer.args,
                                    IF reply # NoReply /\ handler = peer.handler
                                    THEN reply ELSE peer.reply)]
  /\ UNCHANGED invocation

peerResumes ==
  /\ peer.pc \notin {"idle", "done"}
  /\ ~peer.awaiting
  /\ peer' = [peer EXCEPT
                !.pc = "done",
                !.outcome = resumed(peer.handler, peer.args, peer.reply)]
  /\ UNCHANGED invocation

peerReturns ==
  /\ peer.pc = "done"
  /\ peer' = NoPeer
  /\ UNCHANGED invocation

ConcurrentNext ==
  \/ pc = "idle" /\ \E a \in ConcurrentSearchInputs, s \in BOOLEAN :
                      handleSearchIssues(a, s)
  \/ handleSearchIssuesResumes
  \/ pc = "idle" /\ \E a \in DeleteIssueInputs, s \in BOOLEAN : handleDeleteIssue(a, s)
  \/ handleDeleteIssueResumes
  \/ RawRequestSettles
  \/ Return
  \/ \E a \in ConcurrentSearchInputs, s \in BOOLEAN :
       peerEnters("handleSearchIssues", a, s)
  \/ \E a \in DeleteIssueInputs, s \in BOOLEAN : peerEnters("handleDeleteIssue", a, s)
  \/ peerRequestSettles
  \/ peerResumes
  \/ peerReturns

ConcurrentSpec == Init /\ [][ConcurrentNext]_vars

-----------------------------------------------------------------------------
(* Properties *)

\* the invocation passed the session check and named every required field
Accepted(h, required) ==
  /\ handler = h
  /\ authenticated
  /\ \A k \in required : Has(args, k)

\* C1: a list of N >= 1 payloads handed to handleCreateIssues results in
\* exactly one transport call, of the batch create document, whose variables
\* are input = { issues: the caller's list, in order }; the single create
\* document is never used.
C1_BulkCreateIsOneBatchCall ==
  (/\ Accepted("handleCreateIssues", {"issues"})
   /\ isArray(args.issues)
   /\ Len(args.issues.items) >= 1)
  => /\ Len(calls) = 1
     /\ calls[1].document = "CREATE_BATCH_ISSUES"
     /\ DOMAIN calls[1].variables = {"input"}
     /\ DOMAIN calls[1].variables.input = {"issues"}
     /\ isArray(calls[1].variables.input.issues)
     /\ calls[1].variables.input.issues.items = args.issues.items

C1_Witness ==
  /\ Accepted("handleCreateIssues", {"issues"})
  /\ isArray(args.issues)
  /\ Len(args.issues.items) = MaxIssues
  /\ args.issues.items[1] # args.issues.items[MaxIssues]
  /\ pc = "done"
  /\ outcome.kind = "response"
  /\ Len(calls) = 1

\* C2: handleBulkUpdateIssues with one id issues one single-update call bound
\* with id = that id and input = the update payload, and succeeds exactly when
\* the response's issueUpdate reports success; with two or more ids it issues
\* one bulk-update call carrying the whole id list and the one update payload,
\* and succeeds exactly when the response's issueBatchUpdate reports success.
C2_UpdateRouting ==
  (/\ Accepted("handleBulkUpdateIssues", {"issueIds", "update"})
   /\ isArray(args.issueIds))
  => LET ids == args.issueIds.items
     IN /\ Len(ids) = 1 =>
             /\ Len(calls) = 1
             /\ calls[1].document = "UPDATE_ISSUE_MUTATION"
             /\ calls[1].variables = [id |-> ids[1], input |-> args.update]
             /\ (pc = "done" /\ reply.st = "resolved") =>
                  (outcome.kind = "response"
                     <=> /\ Has(reply.data, "issueUpdate")
                         /\ reply.data.issueUpdate.success)
        /\ Len(ids) >= 2 =>
             /\ Len(calls) = 1
             /\ calls[1].document = "UPDATE_ISSUES_MUTATION"
             /\ calls[1].variables.ids.items = ids
             /\ calls[1].variables.input = args.update
             /\ (pc = "done" /\ reply.st = "resolved") =>
                  (outcome.kind = "response"
                     <=> /\ Has(reply.data, "issueBatchUpdate")
                         /\ reply.data.issueBatchUpdate.success)

\* one id, and the response carries a successful issueBatchUpdate only
C2_Witness ==
  /\ Accepted("handleBulkUpdateIssues", {"issueIds", "update"})
  /\ isArray(args.issueIds)
  /\ Len(args.issueIds.items) = 1
  /\ pc = "done"
  /\ reply.st = "resolved"
  /\ ~Has(reply.data, "issueUpdate")
  /\ Has(reply.data, "issueBatchUpdate")
  /\ reply.data.issueBatchUpdate.success
  /\ outcome.kind = "failure"

\* the project step's response is in, and reports success = false
ProjectStepReportedFailure ==
  /\ handler = "createProjectWithIssues"
  /\ \/ /\ pc = "createProjectWithIssues:project"
        /\ reply.st = "resolved"
        /\ ~reply.data.projectCreate.success
     \/ /\ projectResult # NoProject
        /\ ~projectResult.projectCreate.success

\* C3: when the project step of createProjectWithIssues reports
\* success = false, the issues step is never attempted (the transport was
\* called once) and the invocation fails with 'Failed to create project'.
C3_ProjectFailureAborts ==
  ProjectStepReportedFailure
  => /\ Len(calls) = 1
     /\ calls[1].document = "CREATE_PROJECT"
     /\ pc = "done" => outcome = threw(Error(<<"Failed to create project">>))

C3_Witness ==
  /\ ProjectStepReportedFailure
  /\ pc = "done"
  /\ args.issues.items # <<>>
  /\ outcome = threw(Error(<<"Failed to create project">>))

\* the issues step's response is in, and reports success = false
IssuesStepReportedFailure ==
  /\ handler = "createProjectWithIssues"
  /\ pc \in {"createProjectWithIssues:issues", "done"}
  /\ Len(calls) >= 2
  /\ reply.st = "resolved"
  /\ ~reply.data.issueBatchCreate.success

\* C4: when the project step succeeded and the issues step reports
\* success = false, the invocation fails with 'Failed to create issues', the
\* transport was called exactly twice (project, then issues), and no further
\* call (no compensating delete of the project) is issued.
C4_IssuesFailureNoRollback ==
  /\ handler = "createProjectWithIssues" => Len(calls) <= 2
  /\ IssuesStepReportedFailure
     => /\ Len(calls) = 2
        /\ calls[1].document = "CREATE_PROJECT"
        /\ calls[2].document = "CREATE_BATCH_ISSUES"
        /\ projectResult.projectCreate.success
        /\ pc = "done" => outcome = threw(Error(<<"Failed to create issues">>))

C4_Witness ==
  /\ IssuesStepReportedFailure
  /\ pc = "done"
  /\ outcome = threw(Error(<<"Failed to create issues">>))
  /\ Len(calls) = 2

\* the project step succeeded and returned a project
ProjectStepSucceeded ==
  /\ handler = "createProjectWithIssues"
  /\ projectResult # NoProject
  /\ projectResult.projectCreate.success
  /\ projectResult.projectCreate.project # Null

\* C5: when the project step succeeds, the issues step is invoked with a list
\* of the caller's length and order in which every payload has projectId = the
\* id of the project step 1 returned (also over a projectId the caller gave)
\* and every other field as the caller gave it.
C5_ProjectIdThreaded ==
  ProjectStepSucceeded
  => /\ Len(calls) = 2
     /\ calls[2].document = "CREATE_BATCH_ISSUES"
     /\ DOMAIN calls[2].variables = {"input"}
     /\ LET sent == calls[2].variables.input.issues.items
            own  == args.issues.items
        IN /\ Len(sent) = Len(own)
           /\ \A i \in 1..Len(own) :
                /\ DOMAIN sent[i] = DOMAIN own[i] \cup {"projectId"}
                /\ sent[i].projectId = projectResult.projectCreate.project.id
                /\ \A k \in DOMAIN own[i] \ {"projectId"} : sent[i][k] = own[i][k]

\* a caller's payload carried another projectId, and the second project came back
C5_Witness ==
  /\ ProjectStepSucceeded
  /\ projectResult.projectCreate.project.id = "project-2"
  /\ Len(calls) = 2
  /\ Len(args.issues.items) = MaxIssues
  /\ \E i \in 1..Len(args.issues.items) :
       /\ Has(args.issues.items[i], "projectId")
       /\ args.issues.items[i].projectId = "project-old"
       /\ calls[2].variables.input.issues.items[i].projectId = "project-2"

\* the issue create, update and delete documents
IssueMutations ==
  {"CREATE_ISSUE_MUTATION", "CREATE_BATCH_ISSUES", "UPDATE_ISSUE_MUTATION",
   "UPDATE_ISSUES_MUTATION", "DELETE_ISSUE_MUTATION", "DELETE_ISSUES_MUTATION"}

\* C6: every transport call of createIssue, createIssues, updateIssue,
\* updateIssues, deleteIssue and deleteIssues binds exactly the variables its
\* mutation document declares: none missing, none undeclared.
C6_BindsDeclaredVariables ==
  \A i \in 1..Len(calls) :
    calls[i].document \in IssueMutations
      => DOMAIN calls[i].variables = DeclaredVariables(calls[i].document)

\* the list updateIssues is said to bind: one entry per id, in order, each the
\* shared update payload with its id set
UpdateEntries(ids, update) == [i \in 1..Len(ids) |-> With(update, "id", ids[i])]

\* C7: updateIssues(ids, update) issues one transport call whose variables
\* contain input = { issues: L }, L holding one entry per id, in the order of
\* ids, each entry the update payload with id set to that id.
C7_BulkUpdateBindsPerIssueList ==
  \A i \in 1..Len(calls) :
    calls[i].document = "UPDATE_ISSUES_MUTATION"
      => /\ Len(calls) = 1
         /\ Has(calls[i].variables, "input")
         /\ Has(calls[i].variables.input, "issues")
         /\ calls[i].variables.input.issues
              = Arr(UpdateEntries(args.issueIds.items, args.update))

-----------------------------------------------------------------------------
(* What a text reads as, stated apart from the parsing steps *)

RECURSIVE Horner(_, _, _, _)
Horner(s, i, j, acc) ==
  IF i > j THEN acc ELSE Horner(s, i + 1, j, acc * 10 + DigitValue(s[i]))

\* the integers a text reads as: blanks, at most one sign, then a run of
\* decimal digits taken whole; whatever follows the run is not read
IntegerReadings(s) ==
  {(IF d0 > 1 /\ s[d0 - 1] = "-" THEN -1 ELSE 1) * Horner(s, d0, d1, 0) :
     <<d0, d1>> \in
       {<<a, b>> \in (1..Len(s)) \X (1..Len(s)) :
          /\ a <= b
          /\ \A k \in a..b : IsDigit(s[k])
          /\ b = Len(s) \/ ~IsDigit(s[b + 1])
          /\ \/ \A k \in 1..(a - 1) : s[k] = " "
             \/ /\ s[a - 1] \in {"+", "-"}
                /\ \A k \in 1..(a - 2) : s[k] = " "}}

\* the text of a supplied value
TextOf(v) ==
  IF v.t = "number"
  THEN (IF v.n < 0 THEN <<"-">> ELSE <<>>)
         \o NatToString(IF v.n < 0 THEN -v.n ELSE v.n)
  ELSE IF v.t = "null" THEN <<"n", "u", "l", "l">>
  ELSE v.s

\* handleCreateIssue issued its call; the payload it sent
CreateIssueSent == handler = "handleCreateIssue" /\ calls # <<>>

\* C8: in handleCreateIssue a supplied estimate whose text reads as an integer
\* reaches the backend as that integer ("3" gives 3), one whose text does not
\* ("abc") leaves the payload without an estimate field, and the request is
\* sent all the same; with no estimate supplied the payload has none.
C8_EstimateNormalized ==
  /\ Accepted("handleCreateIssue", {"title", "description", "teamId"})
       => Len(calls) = 1 /\ calls[1].document = "CREATE_ISSUE_MUTATION"
  /\ CreateIssueSent
       => LET sent == calls[1].variables.input
          IN IF ~Has(args, "estimate") THEN ~Has(sent, "estimate")
             ELSE LET R == IntegerReadings(TextOf(args.estimate))
                  IN /\ R = {} => ~Has(sent, "estimate")
                     /\ \A n \in R : Has(sent, "estimate") /\ sent.estimate = Num(n)
                     /\ args.estimate = Str(<<"3">>) => sent.estimate = Num(3)
                     /\ args.estimate = Str(<<"a", "b", "c">>)
                          => ~Has(sent, "estimate")

\* "abc" was supplied and the request went out without an estimate
C8_Witness ==
  /\ CreateIssueSent
  /\ Has(args, "estimate")
  /\ args.estimate = Str(<<"a", "b", "c">>)
  /\ ~Has(calls[1].variables.input, "estimate")
  /\ pc = "done"
  /\ outcome.kind = "response"

\* C9: in handleCreateIssue a supplied priority that reads as an integer in
\* 0..4 reaches the backend as that integer (0 stays 0); one that does not
\* read as an integer, or reads below 0 or above 4 (-1, 7, "xyz"), reaches it
\* as 0; a supplied priority is never dropped; none supplied, none sent.
C9_PriorityNormalized ==
  CreateIssueSent
    => LET sent == calls[1].variables.input
       IN IF ~Has(args, "priority") THEN ~Has(sent, "priority")
          ELSE LET R == IntegerReadings(TextOf(args.priority))
               IN /\ Has(sent, "priority")
                  /\ \A n \in R : sent.priority = Num(IF n \in 0..4 THEN n ELSE 0)
                  /\ R = {} => sent.priority = Num(0)
                  /\ args.priority \in {Num(-1), Num(7), Str(<<"x", "y", "z">>)}
                       => sent.priority = Num(0)
                  /\ args.priority = Num(0) => sent.priority = Num(0)
                  /\ args.priority = Num(4) => sent.priority = Num(4)

\* 7 was supplied and 0 went out
C9_Witness ==
  /\ CreateIssueSent
  /\ Has(args, "priority")
  /\ args.priority = Num(7)
  /\ calls[1].variables.input.priority = Num(0)
  /\ pc = "done"

\* the issue payloads a call carries
PayloadsOf(call) ==
  CASE call.document = "CREATE_ISSUE_MUTATION" -> {call.variables.input}
    [] call.document = "CREATE_BATCH_ISSUES" ->
         {call.variables.input.issues.items[i] :
            i \in 1..Len(call.variables.input.issues.items)}
    [] call.document \in {"UPDATE_ISSUE_MUTATION", "UPDATE_ISSUES_MUTATION"} ->
         {call.variables.input}
    [] OTHER -> {}

\* C10: in every backend call issued by handleCreateIssue, handleCreateIssues
\* or handleBulkUpdateIssues, a priority carried by a payload is an integer in
\* 0..4 and an estimate carried by a payload is an integer.
C10_EveryPayloadNormalized ==
  handler \in {"handleCreateIssue", "handleCreateIssues", "handleBulkUpdateIssues"}
    => \A i \in 1..Len(calls) : \A p \in PayloadsOf(calls[i]) :
         /\ Has(p, "priority") => p.priority.t = "number" /\ p.priority.n \in 0..4
         /\ Has(p, "estimate") => p.estimate.t = "number"

-----------------------------------------------------------------------------
(* Search: the assembled filter, paging and ordering *)

LowerCase ==
  {"a", "b", "c", "d", "e", "f", "g", "h", "i", "j", "k", "l", "m",
   "n", "o", "p", "q", "r", "s", "t", "u", "v", "w", "x", "y", "z"}

\* the number a text names when it is, from end to end, one or more of
\* `letters`, a hyphen and one or more digits; null for any other text
IdentifierNumber(q, letters) ==
  LET H == {i \in 2..(Len(q) - 1) :
              /\ q[i] = "-"
              /\ \A j \in 1..(i - 1) : q[j] \in letters
              /\ \A j \in (i + 1)..Len(q) : IsDigit(q[j])}
  IN IF H = {} THEN Null
     ELSE Num(Horner(q, (CHOOSE i \in H : TRUE) + 1, Len(q), 0))

\* the disjunction a query stands for
Disjunction(q, letters) ==
  <<[title  |-> [containsIgnoreCase |-> Str(q)]],
    [number |-> [eq |-> IdentifierNumber(q, letters)]]>>

\* handleSearchIssues issued its call
SearchSent == handler = "handleSearchIssues" /\ calls # <<>>

\* an authenticated search reaches the backend and, answered, responds
SearchGoesThrough ==
  /\ Accepted("handleSearchIssues", {})
       => Len(calls) = 1 /\ calls[1].document = "SEARCH_ISSUES_QUERY"
  /\ (SearchSent /\ pc = "done" /\ reply.st = "resolved")
       => outcome.kind = "response"

\* C11 as stated: for every supplied query q the filter has an `or` of exactly
\* two comparators, title containsIgnoreCase q and number eq n, n the digit
\* group as an integer when q is letters, a hyphen and digits, null otherwise;
\* no query raises an error.
C11_AnyQueryAnyLetters ==
  /\ SearchGoesThrough
  /\ (SearchSent /\ Has(args, "query"))
       => LET filter == calls[1].variables.filter
          IN /\ Has(filter, "or")
             /\ filter.or = Disjunction(args.query.s, UpperCase \cup LowerCase)

\* C11: for every supplied non-empty query q the filter has an `or` of exactly
\* two comparators, title containsIgnoreCase q (the raw text) and number eq n,
\* n the digit group as an integer when q is upper-case letters A-Z, a hyphen
\* and digits from end to end ("ENG-42" gives 42), null otherwise ("login bug",
\* "eng-42"); an empty query contributes no `or`; no query raises an error.
C11_QueryDisjunction ==
  /\ SearchGoesThrough
  /\ (SearchSent /\ Has(args, "query"))
       => LET filter == calls[1].variables.filter
          IN IF args.query.s = <<>> THEN ~Has(filter, "or")
             ELSE /\ Has(filter, "or")
                  /\ filter.or = Disjunction(args.query.s, UpperCase)
                  /\ args.query.s = <<"E", "N", "G", "-", "4", "2">>
                       => filter.or[2].number.eq = Num(42)
                  /\ args.query.s = <<"l", "o", "g", "i", "n", " ", "b", "u", "g">>
                       => filter.or[2].number.eq = Null

\* "ENG-42x" was searched for, went out with number eq null, and was answered
C11_Witness ==
  /\ SearchSent
  /\ Has(args, "query")
  /\ args.query.s = <<"E", "N", "G", "-", "4", "2", "x">>
  /\ calls[1].variables.filter.or[2].number.eq = Null
  /\ pc = "done"
  /\ outcome.kind = "response"

\* C12: the filter sent by handleSearchIssues has priority = {eq: p} exactly
\* when a priority p of numeric type was supplied; 0 goes out as {eq: 0}, the
\* string "2" leaves the filter without a priority key.
C12_PriorityOnlyWhenNumeric ==
  SearchSent
    => LET filter == calls[1].variables.filter
       IN /\ Has(filter, "priority")
               <=> (Has(args, "priority") /\ args.priority.t \in {"number", "NaN"})
          /\ Has(filter, "priority") => filter.priority = [eq |-> args.priority]
          /\ (Has(args, "priority") /\ args.priority = Num(0))
               => Has(filter, "priority") /\ filter.priority.eq = Num(0)
          /\ (Has(args, "priority") /\ args.priority = Str(<<"2">>))
               => ~Has(filter, "priority")

\* priority 0 was supplied and went out as {eq: 0}
C12_Witness ==
  /\ SearchSent
  /\ Has(args, "priority")
  /\ args.priority = Num(0)
  /\ calls[1].variables.filter.priority = [eq |-> Num(0)]
  /\ pc = "done"

\* the caller gave a value at filter.project.id.eq
ProjectIdSupplied(a) ==
  /\ Has(a, "filter")
  /\ Has(a.filter, "project")
  /\ Has(a.filter.project, "id")
  /\ Has(a.filter.project.id, "eq")

\* the filter keys the supplied predicates stand for; emptyCounts says whether
\* an empty text counts as a supplied query or project id
KeysSupplied(a, emptyCounts) ==
  (IF Has(a, "query") /\ (emptyCounts \/ a.query.s # <<>>) THEN {"or"} ELSE {})
    \cup (IF ProjectIdSupplied(a) /\ (emptyCounts \/ a.filter.project.id.eq.s # <<>>)
          THEN {"project"} ELSE {})
    \cup (IF Has(a, "teamIds") THEN {"team"} ELSE {})
    \cup (IF Has(a, "assigneeIds") THEN {"assignee"} ELSE {})
    \cup (IF Has(a, "states") THEN {"state"} ELSE {})
    \cup (IF Has(a, "priority") /\ a.priority.t \in {"number", "NaN"}
          THEN {"priority"} ELSE {})

\* every structured key of the filter carries the caller's value as given
CarriedVerbatim(a, filter) ==
  /\ Has(filter, "project")  => filter.project = [id |-> [eq |-> a.filter.project.id.eq]]
  /\ Has(filter, "team")     => filter.team = [id |-> [in |-> a.teamIds]]
  /\ Has(filter, "assignee") => filter.assignee = [id |-> [in |-> a.assigneeIds]]
  /\ Has(filter, "state")    => filter.state = [name |-> [in |-> a.states]]
  /\ Has(filter, "priority") => filter.priority = [eq |-> a.priority]

\* C13 as stated: the keys of the filter bound to the search call are exactly
\* the keys of the predicates the caller supplied, whatever their values, each
\* carrying its value verbatim; with none supplied the filter is empty and the
\* search succeeds.
C13_KeysAreThePredicatesSupplied ==
  /\ SearchGoesThrough
  /\ SearchSent
       => LET filter == calls[1].variables.filter
          IN /\ DOMAIN filter = KeysSupplied(args, TRUE)
             /\ CarriedVerbatim(args, filter)

\* C13: the keys of the filter bound to the search call are exactly the keys
\* of the predicates supplied with a value that counts: a non-empty query, a
\* non-empty filter.project.id.eq, any teamIds, assigneeIds or states list
\* (empty lists included), a priority of numeric type; each key is carried
\* verbatim (project {id:{eq}}, team and assignee {id:{in}}, state {name:{in}});
\* an empty query or project id adds no key; with no predicate the filter is
\* empty and the search succeeds.
C13_KeysAreThePredicatesThatCount ==
  /\ SearchGoesThrough
  /\ SearchSent
       => LET filter == calls[1].variables.filter
          IN /\ DOMAIN filter = KeysSupplied(args, FALSE)
             /\ CarriedVerbatim(args, filter)
             /\ KeysSupplied(args, TRUE) = {} => filter = EmptyObject

\* team, assignee and an empty project id were supplied: two keys went out,
\* the lists as given, and the search was answered
C13_Witness ==
  /\ SearchSent
  /\ ProjectIdSupplied(args)
  /\ args.filter.project.id.eq = Str(<<>>)
  /\ Has(args, "teamIds")
  /\ Has(args, "assigneeIds")
  /\ DOMAIN calls[1].variables.filter = {"team", "assignee"}
  /\ calls[1].variables.filter.team.id["in"] = Arr(<<"team-2", "team-1">>)
  /\ pc = "done"
  /\ outcome.kind = "response"

\* C14: the search call is the only call of its invocation and its `after`
\* variable is the caller's cursor, whatever text it is (the empty text too);
\* with no cursor supplied the variable is undefined.
C14_CursorForwarded ==
  SearchSent
    => /\ Len(calls) = 1
       /\ calls[1].document = "SEARCH_ISSUES_QUERY"
       /\ calls[1].variables.after
            = (IF Has(args, "after") THEN args.after ELSE Undefined)

\* "cursor123" was supplied and went out as given
C14_Witness ==
  /\ SearchSent
  /\ Has(args, "after")
  /\ args.after = Str(<<"cursor123">>)
  /\ calls[1].variables.after = Str(<<"cursor123">>)
  /\ pc = "done"

\* C15: every search results in exactly one backend call, whose `first` is the
\* caller's page size whenever one was supplied and 50 only when none was.
C15_PageSizeForwarded ==
  /\ Accepted("handleSearchIssues", {})
       => Len(calls) = 1 /\ calls[1].document = "SEARCH_ISSUES_QUERY"
  /\ SearchSent
       => calls[1].variables.first
            = (IF Has(args, "first") THEN args.first ELSE Num(50))

\* the values the tool schema enumerates for orderBy
OrderByEnum ==
  {Str(<<"createdAt_ASC">>), Str(<<"createdAt_DESC">>),
   Str(<<"updatedAt_ASC">>), Str(<<"updatedAt_DESC">>)}

\* C16: the orderBy bound to the backend search call is always one of
\* createdAt_ASC, createdAt_DESC, updatedAt_ASC, updatedAt_DESC, and is
\* updatedAt_DESC when the caller supplies none; no other value is ever bound.
C16_OrderByEnumerated ==
  SearchSent
    => /\ calls[1].variables.orderBy \in OrderByEnum
       /\ ~Has(args, "orderBy")
            => calls[1].variables.orderBy = Str(<<"updatedAt_DESC">>)

-----------------------------------------------------------------------------
(* Result and error translation *)

\* the invocation ended on a call the transport rejected with an Error
TransportFailed == pc = "done" /\ reply.st = "rejected" /\ reply.error.isError

\* C17: in every client operation, when the transport call fails with an Error
\* of message m, the operation throws an Error whose message is
\* 'GraphQL operation failed: ' followed by m, and returns no data.
C17_TransportFailureClassified ==
  TransportFailed
    => /\ clientResult
            = [threw |-> TRUE,
               error |-> Error(<<"GraphQL operation failed: ">> \o reply.error.message)]
       /\ outcome.kind \in {"failure", "threw"}

\* a search was rejected with 'Network error' and failed with the prefixed text
C17_Witness ==
  /\ TransportFailed
  /\ handler = "handleSearchIssues"
  /\ reply.error.message = <<"Network error">>
  /\ clientResult.error.message = <<"GraphQL operation failed: ", "Network error">>

\* a payload one of whose result fields reports success = false
ReportsFailure(data) ==
  \E k \in DOMAIN data : Has(data[k], "success") /\ ~data[k].success

\* what a step that changes the calls of an invocation may do
CallsStep ==
  \/ pc = "done" /\ calls' = <<>>
  \/ /\ Len(calls') = Len(calls) + 1
     /\ SubSeq(calls', 1, Len(calls)) = calls
     /\ \A i \in 1..Len(calls) : calls[i].document # calls'[Len(calls')].document
     /\ calls # <<>> => reply.st = "resolved" /\ ~ReportsFailure(reply.data)
     /\ Len(calls') <= (IF handler' = "createProjectWithIssues" THEN 2 ELSE 1)

\* C18: nothing is retried: a step that touches the transport adds one call,
\* of a document the invocation has not yet sent, and only when the call
\* before it (if any) was answered without a transport error and without
\* success = false; a handler sends at most one call, the composite at most two.
C18_NothingRetried == [][calls' # calls => CallsStep]_vars

\* the composite ended after a rejected first call, with that one call only
C18_Witness ==
  /\ handler = "createProjectWithIssues"
  /\ pc = "done"
  /\ reply.st = "rejected"
  /\ Len(calls) = 1
  /\ outcome.kind = "threw"

\* the result field each mutation reports under
ResultField(doc) ==
  CASE doc = "CREATE_ISSUE_MUTATION"  -> "issueCreate"
    [] doc = "CREATE_BATCH_ISSUES"    -> "issueBatchCreate"
    [] doc = "UPDATE_ISSUE_MUTATION"  -> "issueUpdate"
    [] doc = "UPDATE_ISSUES_MUTATION" -> "issueBatchUpdate"
    [] doc = "DELETE_ISSUE_MUTATION"  -> "issueDelete"
    [] doc = "DELETE_ISSUES_MUTATION" -> "issueDelete"

\* the action each mutation attempts, as the failure names it
FailureText(doc) ==
  CASE doc = "CREATE_ISSUE_MUTATION"  -> <<"Failed to create issue">>
    [] doc = "CREATE_BATCH_ISSUES"    -> <<"Failed to create issues">>
    [] doc = "UPDATE_ISSUE_MUTATION"  -> <<"Failed to update issue">>
    [] doc = "UPDATE_ISSUES_MUTATION" -> <<"Failed to update issues">>
    [] doc = "DELETE_ISSUE_MUTATION"  -> <<"Failed to delete issue">>
    [] doc = "DELETE_ISSUES_MUTATION" -> <<"Failed to delete issues">>

\* a handler's mutation was answered with its result field saying success = false
AnsweredUnsuccessful ==
  /\ handler \in {"handleCreateIssue", "handleCreateIssues", "handleBulkUpdateIssues",
                  "handleDeleteIssue", "handleDeleteIssues"}
  /\ pc = "done"
  /\ calls # <<>>
  /\ reply.st = "resolved"
  /\ Has(reply.data, ResultField(calls[1].document))
  /\ ~reply.data[ResultField(calls[1].document)].success

\* C19: when the create, bulk-create, update, bulk-update, delete or
\* bulk-delete mutation is answered with success = false, the handler ends in
\* a failure whose error names the attempted action (Failed to create issue,
\* create issues, update issue, update issues, delete issue, delete issues),
\* never in a response.
C19_UnsuccessfulIsFailure ==
  AnsweredUnsuccessful
    => /\ outcome.kind = "failure"
       /\ outcome.error = Error(FailureText(calls[1].document))

\* a bulk update answered success = false ended in 'Failed to update issues'
C19_Witness ==
  /\ AnsweredUnsuccessful
  /\ calls[1].document = "UPDATE_ISSUES_MUTATION"
  /\ outcome = handleError(Error(<<"Failed to update issues">>), "update issues")

\* the invocation ended on a call the transport answered
TransportAnswered == pc = "done" /\ reply.st = "resolved"

\* C20: on success every client operation returns the payload the transport
\* delivered, nothing added, removed or reshaped; a search result reaches the
\* handler's response with its nodes in the delivered order and its
\* pageInfo.endCursor as delivered; the composite returns the result fields of
\* its two payloads as delivered.
C20_PayloadPassedThrough ==
  TransportAnswered
    => /\ clientResult = [threw |-> FALSE, value |-> reply.data]
       /\ handler = "handleSearchIssues"
            => /\ outcome.kind = "response"
               /\ outcome.content = reply.data
               /\ outcome.content.issues.nodes = reply.data.issues.nodes
               /\ outcome.content.issues.pageInfo.endCursor
                    = reply.data.issues.pageInfo.endCursor
       /\ (handler = "createProjectWithIssues" /\ outcome.kind = "returned")
            => /\ outcome.value.projectCreate = projectResult.projectCreate
               /\ outcome.value.issueBatchCreate = reply.data.issueBatchCreate

\* a search answered with nodes issue-2, issue-1 and end cursor "cursor456"
\* responded with both as delivered
C20_Witness ==
  /\ TransportAnswered
  /\ handler = "handleSearchIssues"
  /\ reply.data.issues.pageInfo.endCursor = Str(<<"cursor456">>)
  /\ outcome.content.issues.nodes = <<Issue2, Issue1>>
  /\ outcome.content.issues.pageInfo.endCursor = Str(<<"cursor456">>)

-----------------------------------------------------------------------------
(* Validation, routing and sequencing *)

\* the fields each handler requires
RequiredOf(h) ==
  CASE h = "handleCreateIssue"      -> {"title", "description", "teamId"}
    [] h = "handleCreateIssues"     -> {"issues"}
    [] h = "handleBulkUpdateIssues" -> {"issueIds", "update"}
    [] h = "handleDeleteIssue"      -> {"id"}
    [] h = "handleDeleteIssues"     -> {"ids"}

\* the fields each handler wants to be a list
ListFieldsOf(h) ==
  CASE h = "handleCreateIssues"     -> {"issues"}
    [] h = "handleBulkUpdateIssues" -> {"issueIds"}
    [] h = "handleDeleteIssues"     -> {"ids"}
    [] OTHER                        -> {}

ValidatingHandlers ==
  {"handleCreateIssue", "handleCreateIssues", "handleBulkUpdateIssues",
   "handleDeleteIssue", "handleDeleteIssues"}

\* the arguments of the invocation lack a required field or carry a non-list
\* where a list is wanted
ArgsInvalid ==
  /\ handler \in ValidatingHandlers
  /\ \/ \E k \in RequiredOf(handler) : ~Has(args, k)
     \/ \E k \in ListFieldsOf(handler) : Has(args, k) /\ args[k].t # "array"

\* C21: an invocation whose arguments lack a required field, or whose list
\* field (issues, issueIds, ids) is not a list, has failed and has called the
\* transport zero times.
C21_ValidationBeforeAnyCall ==
  ArgsInvalid
    => /\ calls = <<>>
       /\ pc = "done"
       /\ outcome.kind = "failure"

\* an authenticated bulk delete given a text for ids failed without any call
C21_Witness ==
  /\ handler = "handleDeleteIssues"
  /\ authenticated
  /\ Has(args, "ids")
  /\ args.ids = NotAnArray
  /\ calls = <<>>
  /\ outcome = handleError(Error(<<"Ids parameter must be an array">>), "delete issues")

\* C22: handleDeleteIssue sends one DELETE_ISSUE_MUTATION bound with id = the
\* identifier; handleDeleteIssues, for a list of any length, sends exactly one
\* DELETE_ISSUES_MUTATION bound with ids = the whole list, never a call per
\* identifier; both respond with success exactly when issueDelete.success is
\* true in the answer.
C22_DeleteRouting ==
  /\ Accepted("handleDeleteIssue", {"id"})
       => /\ Len(calls) = 1
          /\ calls[1] = [document |-> "DELETE_ISSUE_MUTATION",
                         variables |-> [id |-> args.id]]
  /\ (Accepted("handleDeleteIssues", {"ids"}) /\ args.ids.t = "array")
       => /\ Len(calls) = 1
          /\ calls[1] = [document |-> "DELETE_ISSUES_MUTATION",
                         variables |-> [ids |-> args.ids]]
  /\ (handler \in {"handleDeleteIssue", "handleDeleteIssues"} /\ TransportAnswered)
       => (outcome.kind = "response" <=> reply.data.issueDelete.success)

\* two identifiers were deleted with one batch call carrying both
C22_Witness ==
  /\ handler = "handleDeleteIssues"
  /\ TransportAnswered
  /\ Len(args.ids.items) = 2
  /\ Len(calls) = 1
  /\ calls[1].document = "DELETE_ISSUES_MUTATION"
  /\ calls[1].variables.ids.items = args.ids.items
  /\ outcome.kind = "response"

\* where the composite stands while a call of it is outstanding
CompositeInSequence ==
  (handler = "createProjectWithIssues" /\ awaiting)
    => \/ /\ pc = "createProjectWithIssues:project"
          /\ Len(calls) = 1
          /\ calls[1].document = "CREATE_PROJECT"
          /\ projectResult = NoProject
       \/ /\ pc = "createProjectWithIssues:issues"
          /\ Len(calls) = 2
          /\ calls[2].document = "CREATE_BATCH_ISSUES"
          /\ projectResult # NoProject

\* how the composite may add to its calls
CompositeCallsStep ==
  \/ /\ calls = <<>>
     /\ Len(calls') = 1
     /\ calls'[1].document = "CREATE_PROJECT"
  \/ /\ Len(calls) = 1
     /\ ~awaiting
     /\ reply.st = "resolved"
     /\ calls' = Append(calls, calls'[2])
     /\ calls'[2].document = "CREATE_BATCH_ISSUES"
     /\ projectResult' = reply.data

\* C23: in one createProjectWithIssues invocation the issues call is issued
\* only after the project call has been answered with a response, the project
\* call being the first and only call until then; at most one of the two calls
\* is outstanding at any time.
C23_StepsInSequence ==
  /\ []CompositeInSequence
  /\ [][(handler' = "createProjectWithIssues" /\ calls' # calls)
          => CompositeCallsStep]_vars

\* the project call has been answered and the issues call is outstanding
C23_Witness ==
  /\ handler = "createProjectWithIssues"
  /\ pc = "createProjectWithIssues:issues"
  /\ awaiting
  /\ Len(calls) = 2
  /\ projectResult.projectCreate.success

\* both steps of the composite were answered with success = true
BothStepsSucceeded ==
  /\ handler = "createProjectWithIssues"
  /\ pc = "done"
  /\ Len(calls) = 2
  /\ projectResult.projectCreate.success
  /\ reply.st = "resolved"
  /\ reply.data.issueBatchCreate.success

\* C24: when both steps of createProjectWithIssues succeed, exactly two
\* backend calls were made and the result has two fields: projectCreate, the
\* projectCreate step 1 returned, and issueBatchCreate, the issueBatchCreate
\* step 2 returned; the composite returns a result in no other case.
C24_CombinedResult ==
  /\ BothStepsSucceeded
       => /\ outcome.kind = "returned"
          /\ DOMAIN outcome.value = {"projectCreate", "issueBatchCreate"}
          /\ outcome.value.projectCreate = projectResult.projectCreate
          /\ outcome.value.issueBatchCreate = reply.data.issueBatchCreate
          /\ calls[1].document = "CREATE_PROJECT"
          /\ calls[2].document = "CREATE_BATCH_ISSUES"
  /\ (handler = "createProjectWithIssues" /\ outcome.kind = "returned")
       => BothStepsSucceeded

\* project-2 and two issues were created and returned together
C24_Witness ==
  /\ BothStepsSucceeded
  /\ outcome.kind = "returned"
  /\ outcome.value.projectCreate.project = Project2
  /\ outcome.value.issueBatchCreate.issues = <<Issue2, Issue1>>

\* the shape of each terminal outcome: a result or an error, never both
OutcomeShapes ==
  {o \in {outcome} :
     \/ o.kind = "response" /\ DOMAIN o = {"kind", "content"}
     \/ o.kind = "returned" /\ DOMAIN o = {"kind", "value"}
     \/ o.kind = "failure"  /\ DOMAIN o = {"kind", "operation", "error"}
     \/ o.kind = "threw"    /\ DOMAIN o = {"kind", "error"}}

\* an ended invocation has one outcome, a running one has none
OneTerminalOutcome ==
  /\ pc = "done" => outcome \in OutcomeShapes
  /\ pc # "done" => outcome = NoOutcome

\* C25: when every backend call is eventually answered or rejected, every
\* invocation eventually ends, and it ends in exactly one outcome: a result or
\* one failure, never both and never none; a failed composite carries its
\* error only, no part of a result.
C25_EndsInOneOutcome ==
  /\ []OneTerminalOutcome
  /\ (pc # "idle") ~> (pc = "done")

\* the composite failed in its second step, after the project was created,
\* and ended with the error alone
C25_Witness ==
  /\ handler = "createProjectWithIssues"
  /\ pc = "done"
  /\ Len(calls) = 2
  /\ projectResult.projectCreate.success
  /\ outcome = threw(Error(<<"Failed to create issues">>))

-----------------------------------------------------------------------------
(* Two invocations side by side *)

\* the two invocations were given the same handler, arguments and session
SameIntent ==
  /\ pc # "idle"
  /\ peer.pc # "idle"
  /\ handler = peer.handler
  /\ args = peer.args
  /\ authenticated = peer.authenticated

\* whatever the other invocation is doing, equal intents bind equal calls, and
\* equal intents given equal responses end in equal outcomes
EqualWhenAlike ==
  SameIntent
    => /\ calls = peer.calls
       /\ (pc = "done" /\ peer.pc = "done" /\ reply = peer.reply)
            => outcome = peer.outcome

\* a step of one invocation changes nothing of the other
OneInvocationSteps ==
  /\ peer' # peer => UNCHANGED invocation
  /\ invocation' # invocation => UNCHANGED peer

-----------------------------------------------------------------------------
(* Further cases of the composite and of the handlers *)

\* the transport rejected the project call of the composite
ProjectCallRejected ==
  /\ handler = "createProjectWithIssues"
  /\ reply.st = "rejected"
  /\ calls[Len(calls)].document = "CREATE_PROJECT"

\* what holds once the project call is rejected
ProjectRejectionSurfaced ==
  ProjectCallRejected
    => /\ Len(calls) = 1
       /\ projectResult = NoProject
       /\ pc \in {"createProjectWithIssues:project", "done"}
       /\ pc = "done"
            => /\ outcome.kind = "threw"
               /\ outcome # threw(Error(<<"Failed to create project">>))
               /\ reply.error.isError
                    => outcome = threw(Error(<<"GraphQL operation failed: ">>
                                               \o reply.error.message))

\* C27: when the transport rejects the project call of createProjectWithIssues,
\* no issues call follows in that invocation, the transport has been called
\* exactly once, and the composite throws the transport's error, for an Error of
\* message m 'GraphQL operation failed: ' followed by m, never 'Failed to
\* create project'.
C27_ProjectTransportFailure ==
  /\ []ProjectRejectionSurfaced
  /\ [][ProjectCallRejected => (calls' = calls \/ calls' = <<>>)]_vars

\* the project call was rejected with 'Network error' and the composite ended
\* with the prefixed error after that one call
C27_Witness ==
  /\ ProjectCallRejected
  /\ pc = "done"
  /\ Len(calls) = 1
  /\ outcome = threw(Error(<<"GraphQL operation failed: ", "Network error">>))

\* handleBulkUpdateIssues was given a list, of identifiers `args.issueIds`
BulkUpdateAccepted ==
  /\ Accepted("handleBulkUpdateIssues", {"issueIds", "update"})
  /\ args.issueIds.t = "array"

\* C28: handleBulkUpdateIssues given an empty issueIds list sends one
\* UPDATE_ISSUES_MUTATION bound with the empty list and the update, and
\* responds with success exactly when the answer's issueBatchUpdate says
\* success; UPDATE_ISSUE_MUTATION is sent exactly when the list has one
\* identifier.
C28_EmptyListTakesBulkBranch ==
  BulkUpdateAccepted
    => /\ Len(calls) = 1
       /\ calls[1].document = "UPDATE_ISSUE_MUTATION"
            <=> Len(args.issueIds.items) = 1
       /\ args.issueIds.items = <<>>
            => /\ calls[1] = [document |-> "UPDATE_ISSUES_MUTATION",
                              variables |-> [ids |-> Arr(<<>>), input |-> args.update]]
               /\ TransportAnswered
                    => (outcome.kind = "response"
                          <=> /\ Has(reply.data, "issueBatchUpdate")
                              /\ reply.data.issueBatchUpdate.success)

\* an empty list went out on the bulk document and was answered with a
\* successful issueUpdate only: the handler failed
C28_Witness ==
  /\ BulkUpdateAccepted
  /\ args.issueIds.items = <<>>
  /\ calls[1].document = "UPDATE_ISSUES_MUTATION"
  /\ TransportAnswered
  /\ Has(reply.data, "issueUpdate")
  /\ reply.data.issueUpdate.success
  /\ ~Has(reply.data, "issueBatchUpdate")
  /\ outcome = handleError(Error(<<"Failed to update issues">>), "update issues")

\* the answer to the single create carries success = true and an issue entity
CreatedOne(data) ==
  /\ data.issueCreate.success
  /\ Has(data.issueCreate, "issue")
  /\ data.issueCreate.issue # Null

\* C29: handleCreateIssue responds with success exactly when the answer has
\* success = true and carries the singular issue; every other answer, also one
\* with success = true and no issue, absent or null, or with a plural issues
\* list in its place, ends in the failure 'Failed to create issue'; the
\* response is made from the singular issue.
C29_SingularIssueRequired ==
  (handler = "handleCreateIssue" /\ TransportAnswered)
    => IF CreatedOne(reply.data)
       THEN outcome = createResponse(<<"Successfully created issue",
                                       reply.data.issueCreate.issue>>)
       ELSE outcome = handleError(Error(<<"Failed to create issue">>), "create issue")

\* success = true came with a plural issues list and no issue: failure
C29_Witness ==
  /\ handler = "handleCreateIssue"
  /\ TransportAnswered
  /\ reply.data.issueCreate.success
  /\ Has(reply.data.issueCreate, "issues")
  /\ ~Has(reply.data.issueCreate, "issue")
  /\ outcome = handleError(Error(<<"Failed to create issue">>), "create issue")

\* C30: normalization and project-id threading leave the caller's arguments
\* as they were handed in: throughout handleCreateIssue the caller's object
\* keeps its estimate and priority, throughout createProjectWithIssues every
\* issue payload of the caller keeps its fields (no projectId added or
\* replaced), and so does every other handler's argument object; the repaired
\* values are in the payloads sent only.
C30_CallerArgumentsUntouched ==
  /\ args = supplied
  /\ handler = "handleCreateIssue"
       => /\ Has(args, "estimate") <=> Has(supplied, "estimate")
          /\ Has(args, "priority") <=> Has(supplied, "priority")
          /\ Has(supplied, "estimate") => args.estimate = supplied.estimate
          /\ Has(supplied, "priority") => args.priority = supplied.priority
  /\ handler = "createProjectWithIssues"
       => /\ Len(args.issues.items) = Len(supplied.issues.items)
          /\ \A i \in 1..Len(supplied.issues.items) :
               args.issues.items[i] = supplied.issues.items[i]

\* the caller's payload still names project-old after a copy of it went out
\* under the new project's id
C30_Witness ==
  /\ handler = "createProjectWithIssues"
  /\ pc = "done"
  /\ Len(calls) = 2
  /\ Len(args.issues.items) = 1
  /\ Has(args.issues.items[1], "projectId")
  /\ args.issues.items[1].projectId = "project-old"
  /\ calls[2].variables.input.issues.items[1].projectId
       = projectResult.projectCreate.project.id
  /\ calls[2].variables.input.issues.items[1].projectId # "project-old"

====
